---- MODULE Spec2Model ----
(***************************************************************************)
(* Model of the AI trading agent: the daily analysis run                   *)
(* (daily_analysis.py) and the read API (api_server.py) over the shared    *)
(* "predictions" table.                                                    *)
(*                                                                         *)
(* Text is modelled as a sequence of tokens.  A token stands for a chunk   *)
(* of characters; what matters to the regular expression of                *)
(* analyze_with_claude is whether the chunk carries a brace character,     *)
(* and what matters to json.loads is the JSON structure of the chunk:      *)
(*   "{"        a brace that opens an object                               *)
(*   "k{"       "key": followed by a brace that opens a nested object      *)
(*   "}"        a brace that closes an object                              *)
(*   "s{" "s}"  a member whose string value holds one brace character      *)
(*   "txt"      brace-free prose (not JSON)                                *)
(*   "sigBuy" "sigSell"          "signal": "BUY" / "SELL"                  *)
(*   "conf" "confInt" "confBad"  "confidence": 0.8 / 1 / "high"            *)
(*   "reas" "reasNull"           "reasoning": "x" / null                   *)
(* Separating commas are part of the chunks.                               *)
(***************************************************************************)
EXTENDS Integers, Sequences, FiniteSets, TLC

VARIABLES
    store,       \* the predictions table: rows in insertion order
    before,      \* the table as it was when the current run started
    now,         \* datetime.now()
    run,         \* which daily run this is
    pc,          \* where main() is
    idx,         \* index of the current watchlist ticker
    news,        \* what fetch_news returned
    prompt,      \* the prompt sent to the model for the current ticker
    reply,       \* what the model API answered to it
    prediction,  \* what analyze_with_claude returned
    results,     \* main's results list
    calls,       \* the outbound calls of the current run so far: <<ticker, kind>>
    response,    \* the last answer of the read API
    text,        \* a model response handed to the extraction
    outcome      \* what the extraction made of text

vars == <<store, before, now, run, pc, idx, news, prompt, reply, prediction,
          results, calls, response, text, outcome>>

-----------------------------------------------------------------------------
(* Bounds *)

MaxShortText == 3   \* longest model response enumerated token by token
MaxBody == 4        \* most tokens between the braces of a framed response
NumTickers == 2     \* how many tickers of WATCHLIST a run goes through
MaxRuns == 2        \* daily runs, one after the other
MaxInserts == 1     \* rows that runs insert while the read API is observed
MaxBatch == 2       \* most tickers in a batch request
PriorDays == 51     \* daily runs behind a table that starts filled

-----------------------------------------------------------------------------
(* Sequences *)

RECURSIVE SeqsUpTo(_, _)
SeqsUpTo(S, n) ==
    IF n = 0 THEN {<<>>}
    ELSE LET shorter == SeqsUpTo(S, n - 1)
         IN  shorter \cup {Append(s, x) : s \in {t \in shorter : Len(t) = n - 1}, x \in S}

Min(a, b) == IF a < b THEN a ELSE b

-----------------------------------------------------------------------------
(* Values of a parsed JSON member / a Python value *)

Missing == "<missing>"    \* the key is not in the dict
Null    == "<null>"       \* JSON null / Python None
None    == [none |-> TRUE]

OpenBraces  == {"{", "k{", "s{"}
CloseBraces == {"}", "s}"}
MemberTokens == {"sigBuy", "sigSell", "conf", "confInt", "confBad",
                 "reas", "reasNull", "s{", "s}"}
AllTokens == {"{", "k{", "}", "txt"} \cup MemberTokens

-----------------------------------------------------------------------------
\* re.search(r'\{[^{}]*(?:\{[^{}]*\}[^{}]*)*\}', text): an opening brace, then
\* brace-free text and inner brace pairs holding brace-free text, then a
\* closing brace.

\* A variant for r'\{[^{}]*\}': no inner brace pairs.
RECURSIVE ScanFrom_flat(_, _, _)
ScanFrom_flat(t, j, d) ==
    IF j > Len(t) THEN 0
    ELSE IF t[j] \in OpenBraces THEN 0
    ELSE IF t[j] \in CloseBraces THEN j
    ELSE ScanFrom_flat(t, j + 1, d)

\* The match that starts with the brace before position j, at nesting depth
\* d (1: inside the outer braces, 2: inside an inner pair): the position of
\* its last token, or 0 when the expression does not match from there.
RECURSIVE ScanFrom(_, _, _)
ScanFrom(t, j, d) ==
    IF j > Len(t) THEN 0
    ELSE IF t[j] \in OpenBraces
         THEN IF d = 1 THEN ScanFrom(t, j + 1, 2) ELSE 0
    ELSE IF t[j] \in CloseBraces
         THEN IF d = 2 THEN ScanFrom(t, j + 1, 1) ELSE j
    ELSE ScanFrom(t, j + 1, d)

MatchEnd(t, i) == IF t[i] \in OpenBraces THEN ScanFrom(t, i + 1, 1) ELSE 0

\* The leftmost match, as [from, to], or None.
re_search(t) ==
    LET starts == {i \in 1..Len(t) : MatchEnd(t, i) # 0}
    IN  IF starts = {} THEN None
        ELSE LET i == CHOOSE k \in starts : \A l \in starts : k <= l
             IN  [none |-> FALSE, from |-> i, to |-> MatchEnd(t, i)]

-----------------------------------------------------------------------------
(* json.loads(candidate)                                                   *)

\* The members between the outer braces are well formed: scalar members,
\* and nested objects "k{" ... "}" that close.  d is the nesting depth.
RECURSIVE MembersOk(_, _, _)
MembersOk(m, j, d) ==
    IF j > Len(m) - 1 THEN d = 0
    ELSE IF m[j] = "k{" THEN MembersOk(m, j + 1, d + 1)
    ELSE IF m[j] = "}"  THEN d > 0 /\ MembersOk(m, j + 1, d - 1)
    ELSE IF m[j] \in MemberTokens THEN MembersOk(m, j + 1, d)
    ELSE FALSE

\* The candidate starts at a brace character and ends at one.  A brace that
\* sits inside a string value cuts the string: the candidate is not JSON.
JsonValid(m) ==
    /\ Len(m) >= 2
    /\ m[1] \in {"{", "k{"}
    /\ m[Len(m)] = "}"
    /\ MembersOk(m, 2, 0)

\* Nesting depth of position j of a valid candidate (0: a top-level member).
RECURSIVE DepthAt(_, _)
DepthAt(m, j) ==
    IF j <= 2 THEN 0
    ELSE DepthAt(m, j - 1)
         + (IF m[j - 1] = "k{" THEN 1 ELSE 0)
         - (IF m[j] = "}" THEN 1 ELSE 0)

\* The value of a key: that of its last top-level member (json.loads keeps
\* the last of duplicate keys), Missing when there is none.
LastTop(m, toks) ==
    LET at == {j \in 2..(Len(m) - 1) : m[j] \in toks /\ DepthAt(m, j) = 0}
    IN  IF at = {} THEN 0 ELSE CHOOSE j \in at : \A l \in at : l <= j

SignalOf(tok) == IF tok = "sigBuy" THEN "BUY" ELSE "SELL"
ConfidenceOf(tok) ==
    IF tok = "conf" THEN "0.8" ELSE IF tok = "confInt" THEN "1" ELSE "high"
ReasoningOf(tok) == IF tok = "reas" THEN "x" ELSE Null

json_loads(m) ==
    LET s == LastTop(m, {"sigBuy", "sigSell"})
        c == LastTop(m, {"conf", "confInt", "confBad"})
        r == LastTop(m, {"reas", "reasNull"})
    IN  [none       |-> FALSE,
         signal     |-> IF s = 0 THEN Missing ELSE SignalOf(m[s]),
         confidence |-> IF c = 0 THEN Missing ELSE ConfidenceOf(m[c]),
         reasoning  |-> IF r = 0 THEN Missing ELSE ReasoningOf(m[r])]

-----------------------------------------------------------------------------
(* analyze_with_claude, from the response text on                          *)

\* Lines 133-145: the candidate is searched and parsed; the print of line
\* 137 reads prediction['signal'] and prediction['confidence'], and every
\* exception (JSONDecodeError, KeyError) ends in "return None".
ParsePrediction(t) ==
    LET json_match == re_search(t)
    IN  IF json_match.none THEN None
        ELSE LET candidate == SubSeq(t, json_match.from, json_match.to)
             IN  IF ~JsonValid(candidate) THEN None
                 ELSE LET p == json_loads(candidate)
                      IN  IF p.signal = Missing \/ p.confidence = Missing
                          THEN None
                          ELSE p

-----------------------------------------------------------------------------
(* Configuration and the predictions table                                 *)

\* Ticker symbols are strings of characters (the read API upper-cases and
\* strips what it is given).
WATCHLIST == << <<"A","A","P","L">>, <<"M","S","F","T">>, <<"G","O","O","G","L">>,
                <<"N","V","D","A">>, <<"T","S","L","A">> >>

Watchlist == SubSeq(WATCHLIST, 1, Min(NumTickers, Len(WATCHLIST)))

TopArticles == 10      \* data.get("feed", [])[:10]
HistoryLimit == 5      \* get_historical_predictions(ticker, limit=5)

\* The rows of a ticker, by position in the table.
RowsOf(tbl, ticker) == {i \in 1..Len(tbl) : tbl[i].ticker = ticker}

\* A variant that takes the row stored first.
Newest_first(tbl, S) == CHOOSE i \in S : \A j \in S : i <= j

\* A position of S whose row has the greatest created_at (S is not empty);
\* the later positions are looked at first.
Newest(tbl, S) ==
    LET n == Len(tbl)
        k == CHOOSE k \in 1..n :
                /\ (n + 1 - k) \in S
                /\ \A j \in S : tbl[j].created_at <= tbl[n + 1 - k].created_at
    IN  n + 1 - k

\* .order("created_at", desc=True).limit(n), n >= 0: every listing of n of
\* the positions S (all of them when there are fewer) by non-increasing
\* created_at; rows with equal created_at come in any order.
RECURSIVE OrderDescLimit(_, _, _)
OrderDescLimit(tbl, S, n) ==
    IF S = {} \/ n <= 0 THEN {<<>>}
    ELSE LET m == tbl[Newest(tbl, S)].created_at
             newest == {i \in S : tbl[i].created_at = m}
         IN  UNION {{<<i>> \o rest : rest \in OrderDescLimit(tbl, S \ {i}, n - 1)} : i \in newest}

\* table("predictions").select("*").eq("ticker", ticker)
\*     .order("created_at", desc=True).limit(n).execute(), n >= 0:
\* the possible result.data, as sequences of rows.
Select(tbl, ticker, n) ==
    {[k \in 1..Len(l) |-> tbl[l[k]]] : l \in OrderDescLimit(tbl, RowsOf(tbl, ticker), n)}

-----------------------------------------------------------------------------
(* fetch_news                                                              *)

\* What the news API answers: the call raises (error, timeout, a body that
\* is not JSON), or a JSON body without "feed", or one with a feed whose
\* items carry a sentiment score that float() accepts ("good") or not ("bad").
Feeds == {<<>>, <<"good">>, <<"bad">>, <<"good", "bad">>}

NewsReplies ==
    {[kind |-> "raise", feed |-> <<>>], [kind |-> "no_feed", feed |-> <<>>]}
    \cup {[kind |-> "feed", feed |-> f] : f \in Feeds}

fetch_news(got) ==
    IF got.kind = "raise" THEN <<>>
    ELSE IF got.kind = "no_feed" THEN <<>>
    ELSE LET top == SubSeq(got.feed, 1, Min(TopArticles, Len(got.feed)))
         IN  IF \E k \in 1..Len(top) : top[k] = "bad"
             THEN <<>>                  \* float() raises: except branch
             ELSE [k \in 1..Len(top) |-> "article"]

-----------------------------------------------------------------------------
(* analyze_with_claude, up to the prompt                                   *)

\* get_historical_predictions: result.data, or [] when it is empty or the
\* query raises.
get_historical_predictions(data, ok) == IF ok THEN data ELSE <<>>

\* h['reasoning'][:80] raises TypeError on a row whose reasoning is null.
RenderRaises(historical) ==
    \E k \in 1..Len(historical) : historical[k].reasoning = Null

NoNews == <<"No recent news available">>
NoHistory == <<"No historical predictions yet">>

NewsText(n) == IF n = <<>> THEN NoNews ELSE [k \in 1..Len(n) |-> "- article"]
HistoricalText(historical) ==
    IF historical = <<>> THEN NoHistory
    ELSE [k \in 1..Len(historical) |-> "- prediction"]

ComposePrompt(ticker, n, historical) ==
    [ticker |-> ticker, news_text |-> NewsText(n),
     historical_text |-> HistoricalText(historical)]

NoPrompt == [ticker |-> <<>>, news_text |-> <<>>, historical_text |-> <<>>]
NoReply == [kind |-> "none", text |-> <<>>]

\* What the model API answers: the call raises (error, timeout, HTTP error
\* status, a body without content), or a text.
ModelTexts ==
    { <<"txt", "{", "sigBuy", "conf", "reas", "}", "txt">>,
      <<"txt">>,
      <<"{", "sigBuy", "s}", "conf", "reas", "}">>,
      <<"{", "reas", "}">>,
      <<"{", "sigBuy", "conf", "}">>,
      <<"{", "sigSell", "confInt", "reasNull", "k{", "}", "}">> }

ModelReplies ==
    {[kind |-> "raise", text |-> <<>>]} \cup {[kind |-> "text", text |-> t] : t \in ModelTexts}

\* A variant that answers a failed call with a default recommendation.
CallClaude_fallback(got) ==
    IF got.kind = "raise"
    THEN [none |-> FALSE, signal |-> "BUY", confidence |-> "0.8", reasoning |-> "x"]
    ELSE ParsePrediction(got.text)

CallClaude(got) ==
    IF got.kind = "raise" THEN None ELSE ParsePrediction(got.text)

-----------------------------------------------------------------------------
(* store_prediction                                                        *)

\* float(prediction["confidence"])
FloatRaises(c) == c \in {"high", Null, Missing}
Float(c) == IF c = "1" THEN "1.0" ELSE c

\* Building the row raises KeyError without "reasoning", and ValueError or
\* TypeError when the confidence is no number.
RowRaises(p) == p.reasoning = Missing \/ FloatRaises(p.confidence)

Row(ticker, p, t) ==
    [ticker |-> ticker, signal |-> p.signal, confidence |-> Float(p.confidence),
     reasoning |-> p.reasoning, created_at |-> t]

\* A variant that keeps one row per ticker: it overwrites the ticker's row.
store_prediction_upsert(tbl, ticker, p, t, insertOk) ==
    IF RowRaises(p) \/ ~insertOk THEN tbl
    ELSE IF RowsOf(tbl, ticker) = {} THEN Append(tbl, Row(ticker, p, t))
    ELSE [tbl EXCEPT ![CHOOSE i \in RowsOf(tbl, ticker) : TRUE] = Row(ticker, p, t)]

\* The table after store_prediction(ticker, p) at time t; insertOk: the
\* insert call goes through.
store_prediction(tbl, ticker, p, t, insertOk) ==
    IF RowRaises(p) \/ ~insertOk THEN tbl ELSE Append(tbl, Row(ticker, p, t))

-----------------------------------------------------------------------------
(* main: the daily run                                                     *)

Ticker == Watchlist[idx]

Failed(ticker) == [ticker |-> ticker, status |-> "failed"]
Success(ticker, p) ==
    [ticker |-> ticker, status |-> "success",
     signal |-> p.signal, confidence |-> p.confidence]

Called(kind) == calls' = Append(calls, <<Ticker, kind>>)

\* The for loop goes to the next ticker, or to the summary.  The loop's
\* variables are dead until the next iteration assigns them.
NextTicker ==
    /\ IF idx < Len(Watchlist)
       THEN idx' = idx + 1 /\ pc' = "fetch"
       ELSE idx' = idx /\ pc' = "summary"
    /\ news' = <<>>
    /\ prompt' = NoPrompt
    /\ reply' = NoReply
    /\ prediction' = None

\* line 203: news = agent.fetch_news(ticker)
FetchNews ==
    /\ pc = "fetch"
    /\ \E got \in NewsReplies : news' = fetch_news(got)
    /\ Called("news")
    /\ pc' = "history"
    /\ UNCHANGED <<store, before, now, run, idx, prompt, reply, prediction, results,
                   response, text, outcome>>

\* lines 67-107: the history is read and the prompt rendered.  The rendering
\* is outside every try: what it raises leaves analyze_with_claude and main.
ReadHistory ==
    /\ pc = "history"
    /\ Called("history")
    /\ \E ok \in BOOLEAN, data \in Select(store, Ticker, HistoryLimit) :
          LET historical == get_historical_predictions(data, ok)
          IN  IF RenderRaises(historical)
              THEN pc' = "crashed" /\ prompt' = prompt
              ELSE pc' = "model" /\ prompt' = ComposePrompt(Ticker, news, historical)
    /\ UNCHANGED <<store, before, now, run, idx, news, reply, prediction, results,
                   response, text, outcome>>

\* lines 110-130: the prompt goes to the model API.
CallModel ==
    /\ pc = "model"
    /\ Called("model")
    /\ \E answer \in ModelReplies : reply' = answer
    /\ pc' = "parse"
    /\ UNCHANGED <<store, before, now, run, idx, news, prompt, prediction, results,
                   response, text, outcome>>

\* lines 126-145 and 206-221: the answer is parsed; without a prediction
\* the ticker is recorded as failed.
ParseReply ==
    /\ pc = "parse"
    /\ LET p == CallClaude(reply)
       IN  IF p.none
           THEN /\ results' = Append(results, Failed(Ticker))
                /\ NextTicker
           ELSE /\ prediction' = p
                /\ pc' = "store"
                /\ UNCHANGED <<results, idx, news, prompt, reply>>
    /\ UNCHANGED <<store, before, now, run, calls, response, text, outcome>>

\* lines 210-216: store_prediction, whose result main does not look at, and
\* the success entry.  The clock has moved on when it is next read; a
\* reading that reaches no row is seen by nobody.
StorePrediction ==
    /\ pc = "store"
    /\ \E insertOk \in BOOLEAN :
          store' = store_prediction(store, Ticker, prediction, now, insertOk)
    /\ now' = IF store' = store THEN now ELSE now + 1
    /\ IF RowRaises(prediction) THEN calls' = calls ELSE Called("insert")
    /\ results' = Append(results, Success(Ticker, prediction))
    /\ NextTicker
    /\ UNCHANGED <<before, run, response, text, outcome>>

\* lines 227-231: r['confidence']:.2f raises on a confidence that is no
\* number.
SummaryRaises(res) ==
    \E k \in 1..Len(res) : res[k].status = "success" /\ FloatRaises(res[k].confidence)

Summary ==
    /\ pc = "summary"
    /\ pc' = IF SummaryRaises(results) THEN "summary_crashed" ELSE "done"
    /\ UNCHANGED <<store, before, now, run, idx, news, prompt, reply, prediction, results,
                   calls, response, text, outcome>>

Ended == pc \in {"done", "crashed", "summary_crashed"}

\* The next scheduled invocation: lines 185-196.
StartRun ==
    /\ Ended
    /\ run < MaxRuns
    /\ run' = run + 1
    /\ before' = store
    /\ pc' = "fetch"
    /\ idx' = 1
    /\ news' = <<>>
    /\ prompt' = NoPrompt
    /\ reply' = NoReply
    /\ prediction' = None
    /\ results' = <<>>
    /\ calls' = <<>>
    /\ UNCHANGED <<store, now, response, text, outcome>>

NoResponse == [op |-> "none"]
Pending == [done |-> FALSE]     \* no text has been handed to the extraction

Init ==
    /\ store = <<>>
    /\ before = <<>>
    /\ now = 0
    /\ run = 1
    /\ pc = "fetch"
    /\ idx = 1
    /\ news = <<>>
    /\ prompt = NoPrompt
    /\ reply = NoReply
    /\ prediction = None
    /\ results = <<>>
    /\ calls = <<>>
    /\ response = NoResponse
    /\ text = <<>>
    /\ outcome = Pending

Next ==
    \/ FetchNews
    \/ ReadHistory
    \/ CallModel
    \/ ParseReply
    \/ StorePrediction
    \/ Summary
    \/ StartRun

Spec == Init /\ [][Next]_vars

-----------------------------------------------------------------------------
(* The read API: strings                                                   *)

LowerLetters == <<"a", "f", "l", "m", "p", "s", "t">>
UpperLetters == <<"A", "F", "L", "M", "P", "S", "T">>
Whitespace == {" ", "\n"}

UpperChar(c) ==
    IF \E k \in 1..Len(LowerLetters) : LowerLetters[k] = c
    THEN UpperLetters[CHOOSE k \in 1..Len(LowerLetters) : LowerLetters[k] = c]
    ELSE c

upper(str) == [k \in 1..Len(str) |-> UpperChar(str[k])]

RECURSIVE lstrip(_)
lstrip(str) ==
    IF str # <<>> /\ Head(str) \in Whitespace THEN lstrip(Tail(str)) ELSE str

RECURSIVE rstrip(_)
rstrip(str) ==
    IF str # <<>> /\ str[Len(str)] \in Whitespace
    THEN rstrip(SubSeq(str, 1, Len(str) - 1))
    ELSE str

strip(str) == rstrip(lstrip(str))

\* str.split(","): the pieces between the commas; one piece more than
\* there are commas.
RECURSIVE split(_)
split(str) ==
    IF \A k \in 1..Len(str) : str[k] # ","
    THEN <<str>>
    ELSE LET c == CHOOSE k \in 1..Len(str) :
                     str[k] = "," /\ \A l \in 1..(k - 1) : str[l] # ","
         IN  <<SubSeq(str, 1, c - 1)>> \o split(SubSeq(str, c + 1, Len(str)))

-----------------------------------------------------------------------------
(* The read API: handlers                                                  *)

HistoryCap == 50      \* .limit(min(limit, 50))

HTTPException(code, msg, ticker) ==
    [raised |-> TRUE, status_code |-> code, detail |-> [msg |-> msg, ticker |-> ticker]]

\* get_prediction, lines 78-113, given whether the query goes through and
\* its result.data.
PredictionOf(ticker, ok, data) ==
    IF ~ok THEN HTTPException(500, "Error retrieving prediction", <<>>)
    ELSE IF data = <<>> THEN HTTPException(404, "No predictions found for", ticker)
    ELSE IF FloatRaises(data[1].confidence)
         THEN HTTPException(500, "Error retrieving prediction", <<>>)
    ELSE [raised |-> FALSE,
          body |-> [ticker |-> ticker,
                    signal |-> data[1].signal,
                    confidence |-> Float(data[1].confidence),
                    reasoning |-> data[1].reasoning,
                    timestamp |-> data[1].created_at]]

\* Every answer get_prediction(raw) can give over the table.
get_prediction(tbl, raw) ==
    LET ticker == strip(upper(raw))
    IN  {PredictionOf(ticker, ok, data) : ok \in BOOLEAN, data \in Select(tbl, ticker, 1)}

\* A variant that leaves out the tickers whose lookup raises.
RECURSIVE BatchEntries_skip(_, _, _)
BatchEntries_skip(tbl, ticker_list, k) ==
    IF k > Len(ticker_list) THEN {<<>>}
    ELSE LET found == {pred \in get_prediction(tbl, ticker_list[k]) : ~pred.raised}
             rests == BatchEntries_skip(tbl, ticker_list, k + 1)
         IN  {<<pred.body>> \o rest : pred \in found, rest \in rests}
             \cup (IF \E pred \in get_prediction(tbl, ticker_list[k]) : pred.raised
                   THEN rests ELSE {})

\* lines 134-143: one entry per ticker of the list, from position k on.
RECURSIVE BatchEntries(_, _, _)
BatchEntries(tbl, ticker_list, k) ==
    IF k > Len(ticker_list) THEN {<<>>}
    ELSE LET ticker == ticker_list[k]
             entries == {IF pred.raised
                         THEN [ticker |-> ticker, error |-> pred.detail, status |-> "not_found"]
                         ELSE pred.body : pred \in get_prediction(tbl, ticker)}
         IN  {<<e>> \o rest : e \in entries, rest \in BatchEntries(tbl, ticker_list, k + 1)}

\* Every answer batch_predict(tickers) can give over the table.
batch_predict(tbl, tickers) ==
    LET pieces == split(tickers)
        ticker_list == [k \in 1..Len(pieces) |-> upper(strip(pieces[k]))]
    IN  {[predictions |-> predictions, count |-> Len(predictions)] :
            predictions \in BatchEntries(tbl, ticker_list, 1)}

\* What the backend gives for .limit(n): for n >= 0 the first n rows; a
\* negative n is passed on as it is, and the backend, which is not part of
\* this repository, may reject it (the query raises) or ignore it.
SelectAny(tbl, ticker, n) ==
    IF n >= 0 THEN Select(tbl, ticker, n) ELSE Select(tbl, ticker, Len(tbl))

\* A variant without the cap: .limit(limit).
get_history_uncapped(tbl, raw, limit) ==
    LET ticker == strip(upper(raw))
    IN  {HTTPException(500, "Error retrieving history", <<>>)}
        \cup {[raised |-> FALSE, ticker |-> ticker, history |-> data, count |-> Len(data)] :
                data \in SelectAny(tbl, ticker, limit)}

\* Every answer get_history(raw, limit) can give over the table.
get_history(tbl, raw, limit) ==
    LET ticker == strip(upper(raw))
        n == Min(limit, HistoryCap)
    IN  {HTTPException(500, "Error retrieving history", <<>>)}
        \cup {[raised |-> FALSE, ticker |-> ticker, history |-> data, count |-> Len(data)] :
                data \in SelectAny(tbl, ticker, n)}

-----------------------------------------------------------------------------
(* The read API over a table that daily runs fill                          *)

\* What the callers send.
RawTickers == { <<"A","A","P","L">>, <<"a","a","p","l">>,
                <<" ","m","s","f","t","\n">>, <<"T","S","L","A">>, <<>> }

RECURSIVE join(_)
join(list) ==
    IF Len(list) = 1 THEN list[1] ELSE list[1] \o <<",">> \o join(Tail(list))

BatchTickers == { <<"a","a","p","l">>, <<" ","m","s","f","t","\n">>, <<>> }

BatchRequests == {join(l) : l \in SeqsUpTo(BatchTickers, MaxBatch) \ {<<>>}}

Limits == {-1, 0, 2, 50, 51}

\* created_at of a row that a run inserts while others run too: clocks of
\* overlapping runs need not agree.
Stamps == {-1, 0, 1}

\* The predictions that runs hand to store_prediction.
Predictions == {ParsePrediction(t) : t \in ModelTexts} \ {None}

\* The table after n daily runs that each stored a prediction for the first
\* ticker, the last of them at time 0.
Seeded(n) ==
    [k \in 1..n |->
        Row(WATCHLIST[1], ParsePrediction(<<"{", "sigBuy", "conf", "reas", "}">>), k - n)]

\* Line 210 of some run: a row arrives in the table.  An answer given
\* before is no answer about the table as it is now.
RunStores ==
    /\ Len(store) < Len(before) + MaxInserts
    /\ \E k \in 1..Len(Watchlist), p \in Predictions, t \in Stamps :
          /\ ~RowRaises(p)
          /\ store' = store_prediction(store, Watchlist[k], p, t, TRUE)
    /\ response' = NoResponse
    /\ UNCHANGED <<before, now, run, pc, idx, news, prompt, reply, prediction, results,
                   calls, text, outcome>>

\* One request is observed at a time: response holds the answer to it, given
\* over the table as it is.
Predict ==
    /\ response = NoResponse
    /\ \E raw \in RawTickers : \E answer \in get_prediction(store, raw) :
          response' = [op |-> "predict", ticker |-> raw, answer |-> answer]
    /\ UNCHANGED <<store, before, now, run, pc, idx, news, prompt, reply, prediction,
                   results, calls, text, outcome>>

BatchPredict ==
    /\ response = NoResponse
    /\ \E tickers \in BatchRequests : \E answer \in batch_predict(store, tickers) :
          response' = [op |-> "batch", tickers |-> tickers, batch |-> answer]
    /\ UNCHANGED <<store, before, now, run, pc, idx, news, prompt, reply, prediction,
                   results, calls, text, outcome>>

History ==
    /\ response = NoResponse
    /\ \E raw \in RawTickers, limit \in Limits : \E answer \in get_history(store, raw, limit) :
          response' = [op |-> "history", ticker |-> raw, limit |-> limit, listing |-> answer]
    /\ UNCHANGED <<store, before, now, run, pc, idx, news, prompt, reply, prediction,
                   results, calls, text, outcome>>

InitApi ==
    /\ store \in {Seeded(0), Seeded(PriorDays)}
    /\ before = store
    /\ now = 0
    /\ run = 1
    /\ pc = "done"
    /\ idx = 1
    /\ news = <<>>
    /\ prompt = NoPrompt
    /\ reply = NoReply
    /\ prediction = None
    /\ results = <<>>
    /\ calls = <<>>
    /\ response = NoResponse
    /\ text = <<>>
    /\ outcome = Pending

NextApi == RunStores \/ Predict \/ BatchPredict \/ History

SpecApi == InitApi /\ [][NextApi]_vars

-----------------------------------------------------------------------------
(* analyze_with_claude on a given response text                            *)

ExtractTokens == {"{", "k{", "}", "s{", "s}", "txt", "sigBuy", "conf", "reas"}

BodyTokens == ExtractTokens \ {"{", "txt"}

Pads == {<<>>, <<"txt">>}

\* The responses: every short text, and every text that frames tokens in
\* braces, with or without prose around them.
ResponseTexts ==
    SeqsUpTo(ExtractTokens, MaxShortText)
    \cup {pre \o <<"{">> \o body \o <<"}">> \o post :
            pre \in Pads, post \in Pads, body \in SeqsUpTo(BodyTokens, MaxBody)}

\* lines 130-145 on result["content"][0]["text"] = text
Extract ==
    /\ outcome = Pending
    /\ outcome' = [done |-> TRUE, json_match |-> re_search(text),
                   prediction |-> ParsePrediction(text)]
    /\ UNCHANGED <<store, before, now, run, pc, idx, news, prompt, reply, prediction,
                   results, calls, response, text>>

InitExtract ==
    /\ text \in ResponseTexts
    /\ outcome = Pending
    /\ store = <<>>
    /\ before = <<>>
    /\ now = 0
    /\ run = 1
    /\ pc = "done"
    /\ idx = 1
    /\ news = <<>>
    /\ prompt = NoPrompt
    /\ reply = NoReply
    /\ prediction = None
    /\ results = <<>>
    /\ calls = <<>>
    /\ response = NoResponse

NextExtract == Extract

SpecExtract == InitExtract /\ [][NextExtract]_vars

-----------------------------------------------------------------------------
(* Properties of the daily run (Spec)                                      *)

\* The rows that the current run has added to the table.
NewRows == SubSeq(store, Len(before) + 1, Len(store))

NewRowsOf(ticker) == {i \in 1..Len(NewRows) : NewRows[i].ticker = ticker}

LoopOver == pc \in {"summary", "done", "summary_crashed"}

\* C1: no exception escapes the processing of a ticker: the run never dies
\* inside the watchlist loop, and once the loop is over the results hold one
\* entry per watchlist ticker, in watchlist order.
C1_NoExceptionEscapes ==
    /\ pc # "crashed"
    /\ LoopOver => /\ Len(results) = Len(Watchlist)
                   /\ \A k \in 1..Len(results) : results[k].ticker = Watchlist[k]

\* C2: a ticker whose prediction store_prediction did not write is recorded
\* as failed: every ticker recorded as success has its row in the table.
C2_StoreFailureMarksFailed ==
    \A k \in 1..Len(results) :
        results[k].status = "success" => NewRowsOf(results[k].ticker) # {}

\* The response text holds no brace-delimited object: no opening brace with
\* a closing brace after it.
NoBraceObject(t) ==
    ~ \E i \in 1..Len(t), j \in 1..Len(t) :
          i < j /\ t[i] \in OpenBraces /\ t[j] \in CloseBraces

\* The candidate that the search extracts is not JSON.
CandidateUnparsable(t) ==
    /\ ~re_search(t).none
    /\ ~JsonValid(SubSeq(t, re_search(t).from, re_search(t).to))

GenerationFails(answer) ==
    \/ answer.kind = "raise"
    \/ NoBraceObject(answer.text)
    \/ CandidateUnparsable(answer.text)

\* A ticker recorded as failed has no row of this run.
FailedHaveNoRow ==
    \A k \in 1..Len(results) :
        results[k].status = "failed" => NewRowsOf(results[k].ticker) = {}

\* A failing generation ends in a failed entry, without a row and without
\* an exception.
C3_FailureStep ==
    (pc = "parse" /\ GenerationFails(reply)) =>
        /\ results' = Append(results, [ticker |-> Watchlist[idx], status |-> "failed"])
        /\ store' = store
        /\ pc' \in {"fetch", "summary"}

\* The entry of a ticker whose generation succeeded.
C3_SuccessEntry ==
    pc = "store" =>
        /\ prediction.signal \in {"BUY", "SELL"}
        /\ prediction.confidence \in {"0.8", "1"}
        /\ results' = Append(results, [ticker |-> Watchlist[idx], status |-> "success",
                                       signal |-> prediction.signal,
                                       confidence |-> prediction.confidence])

C9_DegradedInputContinues ==
    /\ (pc \in {"model", "parse", "store"} /\ news = <<>>) => prompt.news_text = NoNews
    /\ ~(pc = "crashed" /\ news = <<>>)

\* The calls of the current run for a ticker, in the order made.
RECURSIVE KindsOf(_, _)
KindsOf(log, ticker) ==
    IF log = <<>> THEN <<>>
    ELSE IF Head(log)[1] = ticker THEN <<Head(log)[2]>> \o KindsOf(Tail(log), ticker)
    ELSE KindsOf(Tail(log), ticker)

CallOrders ==
    { <<>>, <<"news">>, <<"news", "history">>, <<"news", "history", "model">>,
      <<"news", "history", "model", "insert">> }

\* C10: a run only appends to the table, at most one row per watchlist
\* ticker: the rows stored before the run are still there, unchanged and in
\* place; per ticker the run makes at most one news call, one history read,
\* one model call and one insert, in that order; a row comes from an insert.
C10_AppendOnly ==
    /\ Len(before) <= Len(store)
    /\ SubSeq(store, 1, Len(before)) = before
    /\ \A k \in 1..Len(WATCHLIST) :
          /\ Cardinality(NewRowsOf(WATCHLIST[k])) <= 1
          /\ KindsOf(calls, WATCHLIST[k]) \in CallOrders
          /\ NewRowsOf(WATCHLIST[k]) # {} =>
                KindsOf(calls, WATCHLIST[k]) = <<"news", "history", "model", "insert">>
    /\ \A i \in 1..Len(NewRows) : \E k \in 1..Len(Watchlist) : NewRows[i].ticker = Watchlist[k]

\* A second run has gone through its watchlist over a table that held rows,
\* and has added rows of its own.
C10_Witness ==
    /\ run = 2
    /\ pc = "done"
    /\ Len(before) > 0
    /\ Len(store) > Len(before)

-----------------------------------------------------------------------------
(* Properties of the read API (SpecApi)                                    *)

AAPL == <<"A", "A", "P", "L">>
MSFT == <<"M", "S", "F", "T">>
TSLA == <<"T", "S", "L", "A">>

\* The ticker symbol that a caller's string stands for.
Canonical(raw) ==
    IF raw \in {<<"A","A","P","L">>, <<"a","a","p","l">>} THEN AAPL
    ELSE IF raw = <<" ","m","s","f","t","\n">> THEN MSFT
    ELSE raw

\* Row i is a latest row of its ticker.
IsLatest(i) ==
    \A j \in RowsOf(store, store[i].ticker) : store[j].created_at <= store[i].created_at

\* The body of an answer is row i, as get_prediction presents it.
Presents(body, i) ==
    /\ body.ticker = store[i].ticker
    /\ body.signal = store[i].signal
    /\ body.confidence = store[i].confidence
    /\ body.reasoning = store[i].reasoning
    /\ body.timestamp = store[i].created_at

\* C5: get_prediction answers with the signal, confidence, reasoning and
\* timestamp of a row of the ticker with the greatest created_at; it answers
\* 404 exactly for a ticker without rows, unless the lookup itself fails
\* (500).
C5_LatestByCreatedAt ==
    response.op = "predict" =>
        LET ticker == Canonical(response.ticker)
            answer == response.answer
        IN  /\ ~answer.raised =>
                  \E i \in RowsOf(store, ticker) : IsLatest(i) /\ Presents(answer.body, i)
            /\ answer.raised => answer.status_code \in {404, 500}
            /\ (answer.raised /\ answer.status_code = 404) <=>
                  (RowsOf(store, ticker) = {} /\ answer.status_code # 500)

\* The latest prediction of a ticker is served from a table in which a
\* later insert carries an earlier created_at.
C5_Witness ==
    /\ response.op = "predict"
    /\ ~response.answer.raised
    /\ response.ticker = <<"a", "a", "p", "l">>
    /\ Len(store) > 1
    /\ store[Len(store)].ticker = AAPL
    /\ store[Len(store)].created_at < response.answer.body.timestamp

\* The tickers of a batch request: the strings between its commas.
Requested(tickers) ==
    CHOOSE l \in SeqsUpTo(BatchTickers, MaxBatch) \ {<<>>} : join(l) = tickers

Commas(str) == Cardinality({k \in 1..Len(str) : str[k] = ","})

\* C4: batch_predict answers with one entry per ticker of the list, in the
\* order of the list: an error entry {ticker, error, status "not_found"} for
\* a ticker without rows or whose lookup fails, the latest prediction for
\* any other; count is the number of tickers of the list.
C4_BatchNeverRaises ==
    response.op = "batch" =>
        LET list == Requested(response.tickers)
            predictions == response.batch.predictions
        IN  /\ response.batch.count = Len(list)
            /\ response.batch.count = Commas(response.tickers) + 1
            /\ Len(predictions) = Len(list)
            /\ \A k \in 1..Len(list) :
                  LET e == predictions[k]
                  IN  /\ e.ticker = Canonical(list[k])
                      /\ IF "status" \in DOMAIN e
                         THEN /\ DOMAIN e = {"ticker", "error", "status"}
                              /\ e.status = "not_found"
                         ELSE \E i \in RowsOf(store, e.ticker) : IsLatest(i) /\ Presents(e, i)
                      /\ RowsOf(store, e.ticker) = {} => "status" \in DOMAIN e

\* A batch over a ticker with rows and one without: a data entry and an
\* error entry.
C4_Witness ==
    /\ response.op = "batch"
    /\ response.batch.count = 2
    /\ "status" \notin DOMAIN response.batch.predictions[1]
    /\ "status" \in DOMAIN response.batch.predictions[2]
    /\ RowsOf(store, response.batch.predictions[2].ticker) = {}

\* What get_history must list for a ticker and a limit.
HistoryOk(ticker, limit, listing) ==
    LET h == listing.history
    IN  /\ listing.ticker = ticker
        /\ listing.count = Len(h)
        /\ Len(h) <= Min(limit, HistoryCap)
        /\ \A k \in 1..Len(h) : h[k].ticker = ticker
        /\ \A k \in 1..(Len(h) - 1) : h[k].created_at >= h[k + 1].created_at
        \* the listed rows are rows of the table, each listed once
        /\ \A k \in 1..Len(h) :
              Cardinality({l \in 1..Len(h) : h[l] = h[k]})
                 <= Cardinality({i \in RowsOf(store, ticker) : store[i] = h[k]})
        \* and they are the most recent: as many as allowed, none older than
        \* a row left out
        /\ Len(h) = Min(Min(limit, HistoryCap), Cardinality(RowsOf(store, ticker)))
        /\ Len(h) > 0 =>
              Cardinality({i \in RowsOf(store, ticker) :
                              store[i].created_at > h[Len(h)].created_at}) < Len(h)

-----------------------------------------------------------------------------
(* Properties of the extraction (SpecExtract)                              *)

Braces == OpenBraces \cup CloseBraces

HasBrace(t) == \E k \in 1..Len(t) : t[k] \in Braces
FirstBrace(t) == CHOOSE k \in 1..Len(t) : t[k] \in Braces /\ \A l \in 1..(k - 1) : t[l] \notin Braces
LastBrace(t) == CHOOSE k \in 1..Len(t) : t[k] \in Braces /\ \A l \in (k + 1)..Len(t) : t[l] \notin Braces

Count(obj, from, to, toks) == Cardinality({q \in from..to : obj[q] \in toks})

\* Brace characters open at position p, inside the outer braces.
BraceDepth(obj, p) == Count(obj, 2, p, OpenBraces) - Count(obj, 2, p, CloseBraces)

\* Nested objects open before the member at position p.
ObjectDepth(obj, p) == Count(obj, 2, p - 1, {"k{"}) - Count(obj, 2, p - 1, {"}"})

\* obj is one JSON object whose brace characters nest at most one level
\* inside the outer pair.
OneLevelObject(obj) ==
    /\ Len(obj) >= 2
    /\ obj[1] \in {"{", "k{"}
    /\ obj[Len(obj)] = "}"
    /\ \A p \in 2..(Len(obj) - 1) :
          /\ obj[p] \in MemberTokens \cup {"k{", "}"}
          /\ BraceDepth(obj, p) \in {0, 1}
          /\ ObjectDepth(obj, p + 1) >= 0
    /\ BraceDepth(obj, Len(obj) - 1) = 0
    /\ ObjectDepth(obj, Len(obj)) = 0

HasTop(obj, tok) ==
    \E p \in 2..(Len(obj) - 1) : obj[p] = tok /\ ObjectDepth(obj, p) = 0

\* C7: from brace-free text, then one JSON object with at most one level of
\* nested braces that holds signal and confidence, then brace-free text,
\* the generator returns that object: the match runs from the first brace
\* to the last, and the record holds the object's members.
C7_ExtractsEmbeddedObject ==
    (/\ outcome.done
     /\ HasBrace(text)
     /\ OneLevelObject(SubSeq(text, FirstBrace(text), LastBrace(text)))
     /\ HasTop(SubSeq(text, FirstBrace(text), LastBrace(text)), "sigBuy")
     /\ HasTop(SubSeq(text, FirstBrace(text), LastBrace(text)), "conf"))
    => /\ ~outcome.json_match.none
       /\ outcome.json_match.from = FirstBrace(text)
       /\ outcome.json_match.to = LastBrace(text)
       /\ ~outcome.prediction.none
       /\ outcome.prediction.signal = "BUY"
       /\ outcome.prediction.confidence = "0.8"
       /\ outcome.prediction.reasoning =
             (IF HasTop(SubSeq(text, FirstBrace(text), LastBrace(text)), "reas")
              THEN "x" ELSE Missing)

\* Prose, an object with a nested object, prose: the object was returned.
C7_Witness ==
    /\ outcome.done
    /\ text = <<"txt", "{", "sigBuy", "conf", "k{", "}", "}", "txt">>
    /\ ~outcome.prediction.none
    /\ outcome.json_match.from = 2
    /\ outcome.json_match.to = 7

\* C8: a record that analyze_with_claude returns holds signal, confidence
\* and reasoning.
C8_RecordHasFields ==
    (outcome.done /\ ~outcome.prediction.none) =>
        /\ outcome.prediction.signal # Missing
        /\ outcome.prediction.confidence # Missing
        /\ outcome.prediction.reasoning # Missing

====
